---- MODULE Spec2Model ----
(***************************************************************************)
(* Model of kornia/sensors/camera/distortion_model.py: the three lens      *)
(* distortion transforms AffineTransform, BrownConradyTransform and        *)
(* KannalaBrandtK3Transform.                                               *)
(*                                                                         *)
(* Numbers are exact rationals extended with the IEEE-754 special values   *)
(* +inf, -inf and NaN (floating-point rounding is abstracted away, the     *)
(* propagation of special values is kept).  A tensor carries its shape, so *)
(* that indexing along the first or the last axis and broadcasting behave  *)
(* as they do in the array library; an expression whose evaluation raises  *)
(* carries the name of the exception instead of a value.                   *)
(***************************************************************************)
EXTENDS Integers, Sequences, FiniteSets, TLC

(***************************************************************************)
(* Bounds of the input sets.                                               *)
(***************************************************************************)
\* coordinates of the input points, and the affine parameters, range over
\* -MaxCoord..MaxCoord
MaxCoord == 1
\* Brown-Conrady coefficients range over n/2 with n in -MaxCoef..MaxCoef
MaxCoef == 2
\* batched inputs have 1..MaxBatch rows
MaxBatch == 2

(***************************************************************************)
(* Scalars: <<n, d>> with d > 0 in lowest terms is the rational n/d;       *)
(* <<1, 0>> is +inf, <<-1, 0>> is -inf and <<0, 0>> is NaN.                *)
(***************************************************************************)
Abs(n) == IF n < 0 THEN -n ELSE n

Sgn(n) == IF n < 0 THEN -1 ELSE IF n > 0 THEN 1 ELSE 0

RECURSIVE GCD(_, _)
GCD(a, b) == IF b = 0 THEN a ELSE GCD(b, a % b)

\* n/d reduced by the common factor g
Reduce(n, d, g) ==
    IF d = 0 THEN <<Sgn(n), 0>>
    ELSE IF d < 0 THEN <<(-n) \div g, (-d) \div g>>
    ELSE <<n \div g, d \div g>>

Norm(n, d) == Reduce(n, d, GCD(Abs(n), Abs(d)))

R(n) == <<n, 1>>

PosInf == <<1, 0>>
NegInf == <<-1, 0>>
NaN == <<0, 0>>

IsFinite(a) == a[2] # 0

\* a + b for finite a and b whose denominators have the common factor g
AddOver(a, b, g) ==
    Norm(a[1] * (b[2] \div g) + b[1] * (a[2] \div g), (a[2] \div g) * b[2])

\* a + b over the least common denominator; inf + inf = inf,
\* inf + (-inf) = NaN, NaN + b = NaN
RAdd(a, b) ==
    IF a[2] = 0 /\ b[2] = 0 THEN (IF a = b THEN a ELSE NaN)
    ELSE IF a[2] = 0 THEN a
    ELSE IF b[2] = 0 THEN b
    ELSE AddOver(a, b, GCD(a[2], b[2]))

\* a * b for finite a and b, g dividing a's numerator and b's denominator
\* and h dividing b's numerator and a's denominator
MulOver(a, b, g, h) ==
    <<(a[1] \div g) * (b[1] \div h), (a[2] \div h) * (b[2] \div g)>>

\* a * b, cancelling common factors first; inf * 0 = NaN
RMul(a, b) ==
    IF a[2] = 0 \/ b[2] = 0 THEN <<Sgn(a[1]) * Sgn(b[1]), 0>>
    ELSE MulOver(a, b, GCD(Abs(a[1]), b[2]), GCD(Abs(b[1]), a[2]))

RNeg(a) == <<-a[1], a[2]>>

RSub(a, b) == RAdd(a, RNeg(b))

\* 1 / b for finite b; 1 / 0 = +inf
RInv(b) ==
    IF b[1] < 0 THEN <<-b[2], -b[1]>>
    ELSE IF b[1] = 0 THEN PosInf
    ELSE <<b[2], b[1]>>

\* a / b; x / 0 = +-inf, 0 / 0 = NaN, x / inf = 0, inf / inf = NaN
RDiv(a, b) ==
    IF b[2] = 0 THEN (IF a[2] = 0 \/ b[1] = 0 THEN NaN ELSE R(0))
    ELSE RMul(a, RInv(b))

(***************************************************************************)
(* Tensors.  sh is the shape, v the elements (for a two-axis tensor, the   *)
(* sequence of its rows); exc # "" is an expression that raised.           *)
(***************************************************************************)
Tensor(sh, v) == [exc |-> "", sh |-> sh, v |-> v]

Raised(e) == [exc |-> e, sh |-> <<>>, v |-> <<>>]

\* a Python number used as an operand
K(n) == Tensor(<<>>, <<R(n)>>)

\* the arithmetic operator o applied to two scalars
Apply(o, a, b) ==
    CASE o = "+" -> RAdd(a, b)
      [] o = "-" -> RSub(a, b)
      [] o = "*" -> RMul(a, b)
      [] o = "/" -> RDiv(a, b)

\* the shape two operands broadcast to, <<-1>> if they do not
BroadcastShape(sh1, sh2) ==
    IF sh1 = sh2 \/ sh2 = <<>> \/ (sh2 = <<1>> /\ sh1 # <<>>) THEN sh1
    ELSE IF sh1 = <<>> \/ sh1 = <<1>> THEN sh2
    ELSE <<-1>>

\* element j of a tensor broadcast to a longer one
Elem(t, j) == IF Len(t.v) = 1 THEN t.v[1] ELSE t.v[j]

Max(m, n) == IF m >= n THEN m ELSE n

\* element-wise binary operation with broadcasting; the left operand is
\* evaluated first, so its exception wins
Broadcast(o, s, t) ==
    IF s.exc # "" THEN s
    ELSE IF t.exc # "" THEN t
    ELSE IF BroadcastShape(s.sh, t.sh) = <<-1>> THEN Raised("RuntimeError")
    ELSE Tensor(BroadcastShape(s.sh, t.sh),
                [j \in 1..Max(Len(s.v), Len(t.v)) |-> Apply(o, Elem(s, j), Elem(t, j))])

TAdd(s, t) == Broadcast("+", s, t)
TSub(s, t) == Broadcast("-", s, t)
TMul(s, t) == Broadcast("*", s, t)
TDiv(s, t) == Broadcast("/", s, t)
TNeg(s) == TSub(K(0), s)

\* t[..., k] : component k (counted from 0) along the last axis
LastIdx(t, k) ==
    IF t.exc # "" THEN t
    ELSE IF k >= t.sh[Len(t.sh)] THEN Raised("IndexError")
    ELSE IF Len(t.sh) = 1 THEN Tensor(<<>>, <<t.v[k + 1]>>)
    ELSE Tensor(<<t.sh[1]>>, [j \in 1..t.sh[1] |-> t.v[j][k + 1]])

\* t[k] : entry k (counted from 0) along the first axis
FirstIdx(t, k) ==
    IF t.exc # "" THEN t
    ELSE IF k >= t.sh[1] THEN Raised("IndexError")
    ELSE IF Len(t.sh) = 1 THEN Tensor(<<>>, <<t.v[k + 1]>>)
    ELSE Tensor(<<t.sh[2]>>, t.v[k + 1])

(***************************************************************************)
(* Vector2 and the outcome of a call.                                      *)
(***************************************************************************)
Vector2(x, y) == [x |-> x, y |-> y]

NoVec == Vector2(Raised("unbound"), Raised("unbound"))

\* Vector2 - Vector2
VSub(p, q) == Vector2(TSub(p.x, q.x), TSub(p.y, q.y))

VecExc(p) == IF p.x.exc # "" THEN p.x.exc ELSE p.y.exc

Pending == [kind |-> "pending", val |-> NoVec, exc |-> ""]

ReturnNone == [kind |-> "None", val |-> NoVec, exc |-> ""]

Raise(e) == [kind |-> "raise", val |-> NoVec, exc |-> e]

\* return Vector2.from_coords(u, v), unless computing u or v raised
Return(p) ==
    IF VecExc(p) # "" THEN Raise(VecExc(p))
    ELSE IF p.x.sh # p.y.sh THEN Raise("RuntimeError")
    ELSE [kind |-> "Vector2", val |-> p, exc |-> ""]

(***************************************************************************)
(* AffineTransform                                                         *)
(***************************************************************************)
AffineDistortSwapped(params, points) ==
    LET fx == LastIdx(params, 0)
        fy == LastIdx(params, 1)
        cx == LastIdx(params, 2)
        cy == LastIdx(params, 3)
        u == TAdd(TMul(points.x, fx), cy)
        v == TAdd(TMul(points.y, fy), cx)
    IN  Return(Vector2(u, v))

AffineTransform_distort(params, points) ==
    LET fx == LastIdx(params, 0)
        fy == LastIdx(params, 1)
        cx == LastIdx(params, 2)
        cy == LastIdx(params, 3)
        u == TAdd(TMul(points.x, fx), cx)
        v == TAdd(TMul(points.y, fy), cy)
    IN  Return(Vector2(u, v))

AffineUndistortPlus(params, points) ==
    LET fx == LastIdx(params, 0)
        fy == LastIdx(params, 1)
        cx == LastIdx(params, 2)
        cy == LastIdx(params, 3)
        x == TDiv(TAdd(points.x, cx), fx)
        y == TDiv(TAdd(points.y, cy), fy)
    IN  Return(Vector2(x, y))

AffineTransform_undistort(params, points) ==
    LET fx == LastIdx(params, 0)
        fy == LastIdx(params, 1)
        cx == LastIdx(params, 2)
        cy == LastIdx(params, 3)
        x == TDiv(TSub(points.x, cx), fx)
        y == TDiv(TSub(points.y, cy), fy)
    IN  Return(Vector2(x, y))

(***************************************************************************)
(* BrownConradyTransform                                                   *)
(***************************************************************************)
ProjectNoUnit(distortion_params, points) ==
    LET x == points.x
        y == points.y
        k1 == LastIdx(distortion_params, 0)
        k2 == LastIdx(distortion_params, 1)
        p1 == LastIdx(distortion_params, 2)
        p2 == LastIdx(distortion_params, 3)
        k3 == LastIdx(distortion_params, 4)
        k4 == LastIdx(distortion_params, 5)
        k5 == LastIdx(distortion_params, 6)
        k6 == LastIdx(distortion_params, 7)
        r2 == TAdd(TMul(x, x), TMul(y, y))
        r4 == TMul(r2, r2)
        r6 == TMul(r4, r2)
        a1 == TMul(TMul(K(2), x), y)
        a2 == TAdd(r2, TMul(TMul(K(2), x), x))
        a3 == TAdd(r2, TMul(TMul(K(2), y), y))
        cdist == TAdd(TAdd(TMul(k1, r2), TMul(k2, r4)), TMul(k3, r6))
        icdist == TDiv(K(1), TAdd(TAdd(TAdd(K(1), TMul(k4, r2)), TMul(k5, r4)),
                                  TMul(k6, r6)))
        xd0 == TAdd(TAdd(TMul(TMul(x, cdist), icdist), TMul(p1, a1)), TMul(p2, a2))
        yd0 == TAdd(TAdd(TMul(TMul(y, cdist), icdist), TMul(p1, a3)), TMul(p2, a1))
    IN  Vector2(xd0, yd0)

\* the two coordinates project passes to Vector2.from_coords
project(distortion_params, points) ==
    LET x == points.x
        y == points.y
        k1 == LastIdx(distortion_params, 0)
        k2 == LastIdx(distortion_params, 1)
        p1 == LastIdx(distortion_params, 2)
        p2 == LastIdx(distortion_params, 3)
        k3 == LastIdx(distortion_params, 4)
        k4 == LastIdx(distortion_params, 5)
        k5 == LastIdx(distortion_params, 6)
        k6 == LastIdx(distortion_params, 7)
        r2 == TAdd(TMul(x, x), TMul(y, y))
        r4 == TMul(r2, r2)
        r6 == TMul(r4, r2)
        a1 == TMul(TMul(K(2), x), y)
        a2 == TAdd(r2, TMul(TMul(K(2), x), x))
        a3 == TAdd(r2, TMul(TMul(K(2), y), y))
        cdist == TAdd(TAdd(TAdd(K(1), TMul(k1, r2)), TMul(k2, r4)), TMul(k3, r6))
        icdist == TDiv(K(1), TAdd(TAdd(TAdd(K(1), TMul(k4, r2)), TMul(k5, r4)),
                                  TMul(k6, r6)))
        xd0 == TAdd(TAdd(TMul(TMul(x, cdist), icdist), TMul(p1, a1)), TMul(p2, a2))
        yd0 == TAdd(TAdd(TMul(TMul(y, cdist), icdist), TMul(p1, a3)), TMul(p2, a1))
    IN  Vector2(xd0, yd0)

\* the first exception in a sequence of evaluated statements, "" if none
RECURSIVE FirstExc(_)
FirstExc(ts) ==
    IF ts = <<>> THEN ""
    ELSE IF Head(ts).exc # "" THEN Head(ts).exc
    ELSE FirstExc(Tail(ts))

\* the locals bound by one pass through the body of unproject's loop, and
\* the exception that ends the pass, if any; cs holds c5, c15, c16 and c20
Locals(x, y, f_xy, cs, du_dx, du_dy, dv_dx, dv_dy) ==
    [x |-> x, y |-> y, f_xy |-> f_xy,
     du_dx |-> du_dx, du_dy |-> du_dy, dv_dx |-> dv_dx, dv_dy |-> dv_dy,
     exc |-> FirstExc(<<f_xy.x, f_xy.y>> \o cs \o <<du_dx, du_dy, dv_dx, dv_dy>>)]

\* one pass through the body of unproject's loop
LoopBody(distortion_params, xy, uv_normalized) ==
    LET x == xy.x
        y == xy.y
        a == x
        b == y
        d == distortion_params
        c0 == TMul(a, a)
        c1 == TMul(b, b)
        c2 == TAdd(c0, c1)
        c3 == TMul(c2, c2)
        c4 == TMul(c3, c2)
        c5 == TAdd(TAdd(TAdd(TMul(c2, LastIdx(d, 5)), TMul(c3, LastIdx(d, 6))),
                        TMul(c4, LastIdx(d, 7))), K(1))
        c6 == TMul(c5, c5)
        c7 == TDiv(K(1), c6)
        c8 == TMul(a, LastIdx(d, 3))
        c9 == TMul(K(2), LastIdx(d, 2))
        c10 == TMul(K(2), c2)
        c11 == TMul(K(3), c3)
        c12 == TMul(c2, LastIdx(d, 0))
        c13 == TMul(c3, LastIdx(d, 1))
        c14 == TMul(c4, LastIdx(d, 4))
        c15 == TMul(TMul(K(2), TAdd(TAdd(TMul(c10, LastIdx(d, 6)),
                                         TMul(c11, LastIdx(d, 7))), LastIdx(d, 5))),
                    TAdd(TAdd(TAdd(c12, c13), c14), K(1)))
        c16 == TAdd(TAdd(TMul(TMul(K(2), c10), LastIdx(d, 1)),
                         TMul(TMul(K(2), c11), LastIdx(d, 4))),
                    TMul(K(2), LastIdx(d, 0)))
        c17 == TAdd(TAdd(TAdd(TMul(K(1), c12), TMul(K(1), c13)), TMul(K(1), c14)), K(1))
        c18 == TMul(b, LastIdx(d, 3))
        c19 == TMul(a, b)
        c20 == TAdd(TMul(TNeg(c15), c19), TMul(TMul(c16, c19), c15))
    IN  Locals(x, y,
               VSub(project(distortion_params, Vector2(x, y)), uv_normalized),
               <<c5, c15, c16, c20>>,
               TMul(c7, TAdd(TAdd(TMul(TNeg(c0), c15),
                                  TMul(c5, TAdd(TMul(c0, c16), c17))),
                             TMul(c6, TAdd(TMul(b, c9), TMul(K(6), c8))))),
               TMul(c7, TAdd(c20, TMul(c6, TAdd(TMul(a, c9), TMul(K(2), c18))))),
               TMul(c7, TAdd(c20, TMul(c6, TAdd(TMul(TMul(K(2), a), FirstIdx(d, 2)),
                                                TMul(K(2), c18))))),
               TMul(c7, TAdd(TAdd(TMul(TNeg(c1), c15),
                                  TMul(c5, TAdd(TMul(c1, c16), c17))),
                             TMul(c6, TAdd(TMul(TMul(K(6), b), FirstIdx(d, 2)),
                                           TMul(K(2), c8))))))

\* the locals before the first pass
Unbound ==
    [x |-> Raised("unbound"), y |-> Raised("unbound"), f_xy |-> NoVec,
     du_dx |-> Raised("unbound"), du_dy |-> Raised("unbound"),
     dv_dx |-> Raised("unbound"), dv_dy |-> Raised("unbound"), exc |-> ""]

\* range(50)
NumIters == 50

BrownConradyDistortReturns(params, points) == Return(points)

BrownConradyTransform_distort(params, points) == Raise("NotImplementedError")

BrownConradyTransform_undistort(params, points) == Raise("NotImplementedError")

(***************************************************************************)
(* KannalaBrandtK3Transform                                                *)
(***************************************************************************)
KannalaBrandtK3Transform_distort(params, points) == Raise("NotImplementedError")

KannalaBrandtK3Transform_undistort(params, points) == Raise("NotImplementedError")

(***************************************************************************)
(* Inputs.                                                                 *)
(***************************************************************************)
Coords == (-MaxCoord)..MaxCoord

CoefVals == {Norm(n, 2) : n \in (-MaxCoef)..MaxCoef}

\* the inputs of the doctests of AffineTransform
DocParams == <<R(1), R(2), R(3), R(4)>>
DocPoint == <<R(1), R(2)>>

AffineRows == {<<R(a), R(b), R(c), R(e)>> : a, b, c, e \in Coords} \cup {DocParams}

ZeroRow(n) == [j \in 1..n |-> R(0)]

\* the zero vector, and the vectors with one non-zero coefficient
BrownConradyRows ==
    {[j \in 1..8 |-> IF j = k THEN val ELSE R(0)] : k \in 1..8, val \in CoefVals}

PointRows == {<<R(a), R(b)>> : a, b \in Coords} \cup {DocPoint}

\* a coefficient array of shape (n,)
Unbatched(row) == Tensor(<<Len(row)>>, row)

\* a coefficient array of shape (B, n): its rows are row and the negated row,
\* in turn
Batched(row, B) ==
    Tensor(<<B, Len(row)>>,
           [j \in 1..B |-> IF j % 2 = 1 THEN row ELSE [k \in 1..Len(row) |-> RNeg(row[k])]])

\* a single point, and a batch of B copies of it
Point(pt) == Vector2(Tensor(<<>>, <<pt[1]>>), Tensor(<<>>, <<pt[2]>>))

PointBatch(pt, B) ==
    Vector2(Tensor(<<B>>, [j \in 1..B |-> pt[1]]), Tensor(<<B>>, [j \in 1..B |-> pt[2]]))

Inputs ==
    {<<Unbatched(row), Point(pt)>> : row \in AffineRows \cup BrownConradyRows,
                                     pt \in PointRows}
    \cup {<<Batched(row, B), PointBatch(pt, B)>> :
              row \in AffineRows \cup BrownConradyRows, B \in 1..MaxBatch,
              pt \in PointRows}

(***************************************************************************)
(* State: the caller's inputs, the call in progress or last completed, the *)
(* call before it, and the frame of unproject.                             *)
(***************************************************************************)
VARIABLES params, points, op, arg, chained, prevOp, prevArg, ncalls,
          pc, i, xy, loc, result

vars == <<params, points, op, arg, chained, prevOp, prevArg, ncalls,
          pc, i, xy, loc, result>>

Init ==
    /\ \E inp \in Inputs : params = inp[1] /\ points = inp[2]
    /\ op = ""
    /\ arg = NoVec
    /\ chained = FALSE
    /\ prevOp = ""
    /\ prevArg = NoVec
    /\ ncalls = 0
    /\ pc = "idle"
    /\ i = 0
    /\ xy = NoVec
    /\ loc = Unbound
    /\ result = Pending

NumParams == params.sh[Len(params.sh)]

\* the coordinates lie in the range of the inputs and are halves
InRange(t) ==
    \A j \in 1..Len(t.v) : Abs(t.v[j][1]) <= MaxCoord * t.v[j][2] /\ t.v[j][2] <= 2

\* the caller makes one call on the input points, and may pass the point
\* batch it returns to one more call
CanCall(c) ==
    /\ pc \in {"idle", "done"}
    /\ ~c => ncalls = 0
    /\ c => /\ ncalls = 1
            /\ result.kind = "Vector2"
            /\ InRange(result.val.x)
            /\ InRange(result.val.y)

Argument(c) == IF c THEN result.val ELSE points

\* a call whose body runs in one step
Call(name, c, outcome) ==
    /\ op' = name
    /\ arg' = Argument(c)
    /\ chained' = c
    /\ prevOp' = op
    /\ prevArg' = arg
    /\ ncalls' = ncalls + 1
    /\ pc' = "done"
    /\ result' = outcome
    /\ UNCHANGED <<params, points, i, xy, loc>>

AffineDistort ==
    \E c \in BOOLEAN :
        /\ CanCall(c)
        /\ NumParams = 4
        /\ Call("AffineTransform.distort", c, AffineTransform_distort(params, Argument(c)))

AffineUndistort ==
    \E c \in BOOLEAN :
        /\ CanCall(c)
        /\ NumParams = 4
        /\ Call("AffineTransform.undistort", c,
                AffineTransform_undistort(params, Argument(c)))

BrownConradyProject ==
    \E c \in BOOLEAN :
        /\ CanCall(c)
        /\ NumParams = 8
        /\ Call("BrownConradyTransform.project", c, Return(project(params, Argument(c))))

\* xy = uv_normalized.data
UnprojectCall ==
    \E c \in BOOLEAN :
        /\ CanCall(c)
        /\ NumParams = 8
        /\ op' = "BrownConradyTransform.unproject"
        /\ arg' = Argument(c)
        /\ chained' = c
        /\ prevOp' = op
        /\ prevArg' = arg
        /\ ncalls' = ncalls + 1
        /\ pc' = "loop"
        /\ i' = 0
        /\ xy' = Argument(c)
        /\ loc' = Unbound
        /\ result' = Pending
        /\ UNCHANGED <<params, points>>

\* one pass of for i in range(50)
UnprojectIter ==
    /\ pc = "loop"
    /\ i < NumIters
    /\ loc' = LoopBody(params, xy, arg)
    /\ IF loc'.exc # ""
       THEN /\ result' = Raise(loc'.exc)
            /\ pc' = "done"
            /\ i' = i
       ELSE /\ result' = result
            /\ pc' = "loop"
            /\ i' = i + 1
    /\ UNCHANGED <<params, points, op, arg, chained, prevOp, prevArg, ncalls, xy>>

\* the loop is exhausted and the function body ends
UnprojectReturn ==
    /\ pc = "loop"
    /\ i = NumIters
    /\ result' = ReturnNone
    /\ pc' = "done"
    /\ UNCHANGED <<params, points, op, arg, chained, prevOp, prevArg, ncalls,
                   i, xy, loc>>

BrownConradyDistort ==
    \E c \in BOOLEAN :
        /\ CanCall(c)
        /\ NumParams = 8
        /\ Call("BrownConradyTransform.distort", c,
                BrownConradyTransform_distort(params, Argument(c)))

BrownConradyUndistort ==
    \E c \in BOOLEAN :
        /\ CanCall(c)
        /\ NumParams = 8
        /\ Call("BrownConradyTransform.undistort", c,
                BrownConradyTransform_undistort(params, Argument(c)))

KannalaBrandtK3Distort ==
    \E c \in BOOLEAN :
        /\ CanCall(c)
        /\ NumParams = 8
        /\ Call("KannalaBrandtK3Transform.distort", c,
                KannalaBrandtK3Transform_distort(params, Argument(c)))

KannalaBrandtK3Undistort ==
    \E c \in BOOLEAN :
        /\ CanCall(c)
        /\ NumParams = 8
        /\ Call("KannalaBrandtK3Transform.undistort", c,
                KannalaBrandtK3Transform_undistort(params, Argument(c)))

Next ==
    \/ AffineDistort
    \/ AffineUndistort
    \/ BrownConradyProject
    \/ UnprojectCall
    \/ UnprojectIter
    \/ UnprojectReturn
    \/ BrownConradyDistort
    \/ BrownConradyUndistort
    \/ KannalaBrandtK3Distort
    \/ KannalaBrandtK3Undistort

Spec == Init /\ [][Next]_vars

(***************************************************************************)
(* Properties.                                                             *)
(***************************************************************************)
Done(name) == pc = "done" /\ op = name

IsBatched == Len(params.sh) = 2

\* the coefficients that apply to element j of the batch
Row(j) == IF IsBatched THEN params.v[j] ELSE params.v

Elems(p) == 1..Len(p.x.v)

FiniteVec(p) == \A j \in Elems(p) : IsFinite(p.x.v[j]) /\ IsFinite(p.y.v[j])

\* C1: unproject returns a point batch, never None
C1_UnprojectReturnsPoint ==
    Done("BrownConradyTransform.unproject") => result.kind = "Vector2"

\* C2: with non-zero fx and fy, undistort(params, distort(params, p)) = p
C2_AffineRoundTrip ==
    ( /\ Done("AffineTransform.undistort")
      /\ chained
      /\ prevOp = "AffineTransform.distort"
      /\ \A j \in Elems(prevArg) : Row(j)[1] # R(0) /\ Row(j)[2] # R(0) )
    => result.kind = "Vector2" /\ result.val = prevArg

C2_Witness ==
    /\ Done("AffineTransform.undistort")
    /\ chained
    /\ prevOp = "AffineTransform.distort"
    /\ \A j \in Elems(prevArg) : Row(j)[1] # R(0) /\ Row(j)[2] # R(0)
    /\ Row(1)[1] = R(-1)
    /\ Row(1)[3] = R(1)
    /\ arg # prevArg
    /\ result.val = prevArg

\* C3: distort and undistort of BrownConradyTransform and of
\* KannalaBrandtK3Transform always raise NotImplementedError
C3_Unsupported ==
    ( /\ pc = "done"
      /\ op \in {"BrownConradyTransform.distort", "BrownConradyTransform.undistort",
                 "KannalaBrandtK3Transform.distort",
                 "KannalaBrandtK3Transform.undistort"} )
    => result = Raise("NotImplementedError")

C3_Witness ==
    /\ Done("BrownConradyTransform.distort")
    /\ chained
    /\ result.kind = "raise"
    /\ result.exc = "NotImplementedError"

\* |a| < n/d and |a - b| <= n/d on scalars
AbsLess(a, n, d) == IsFinite(a) /\ Abs(a[1]) * d < n * a[2]

Within(a, b, n, d) ==
    /\ IsFinite(a)
    /\ IsFinite(b)
    /\ Abs(RSub(a, b)[1]) * d <= n * RSub(a, b)[2]

\* |k1|, |k2|, |k3| < 1, |p1|, |p2| < 0.1, no rational denominator
Realistic(row) ==
    /\ AbsLess(row[1], 1, 1) /\ AbsLess(row[2], 1, 1) /\ AbsLess(row[5], 1, 1)
    /\ AbsLess(row[3], 1, 10) /\ AbsLess(row[4], 1, 10)
    /\ row[6] = R(0) /\ row[7] = R(0) /\ row[8] = R(0)

\* x^2 + y^2 <= 1
InUnitDisc(x, y) ==
    /\ IsFinite(x)
    /\ IsFinite(y)
    /\ RAdd(RMul(x, x), RMul(y, y))[1] <= RAdd(RMul(x, x), RMul(y, y))[2]

\* C4: for realistic coefficients and points of the unit disc,
\* unproject(params, project(params, p)) is within 1e-4 of p
C4_ProjectRoundTrip ==
    ( /\ Done("BrownConradyTransform.unproject")
      /\ chained
      /\ prevOp = "BrownConradyTransform.project"
      /\ \A j \in Elems(prevArg) :
            Realistic(Row(j)) /\ InUnitDisc(prevArg.x.v[j], prevArg.y.v[j]) )
    => /\ result.kind = "Vector2"
       /\ \A j \in Elems(prevArg) :
             /\ Within(result.val.x.v[j], prevArg.x.v[j], 1, 10000)
             /\ Within(result.val.y.v[j], prevArg.y.v[j], 1, 10000)

AllZero == \A j \in Elems(points) : Row(j) = ZeroRow(8)

\* C5: with all 8 coefficients zero, project(params, p) = p
C5_ZeroDistortionIdentity ==
    (Done("BrownConradyTransform.project") /\ AllZero)
    => result.kind = "Vector2" /\ result.val = arg

C5_Witness ==
    /\ Done("BrownConradyTransform.project")
    /\ AllZero
    /\ arg.x.v[1] = R(1)
    /\ arg.y.v[1] = R(-1)
    /\ result.val = arg

\* r = a * f + c for rationals a, r and integers f, c
IsScaleOffset(r, a, f, c) ==
    /\ IsFinite(r)
    /\ r[1] * a[2] = (a[1] * f[1] + c[1] * a[2]) * r[2]

\* r = (a - c) / f for rationals a, r and integers f, c, with the IEEE
\* result when f is zero
IsOffsetQuotient(r, a, f, c) ==
    IF f[1] # 0
    THEN IsFinite(r) /\ r[1] * (a[2] * f[1]) = (a[1] - c[1] * a[2]) * r[2]
    ELSE r = <<Sgn(a[1] - c[1] * a[2]), 0>>

\* C6: distort returns (x*fx + cx, y*fy + cy), undistort returns
\* ((u - cx)/fx, (v - cy)/fy); for params (1,2,3,4) and point (1,2) they
\* return (4, 8) and (-2, -1)
C6_AffineFormulas ==
    /\ (Done("AffineTransform.distort") /\ FiniteVec(arg))
       => /\ result.kind = "Vector2"
          /\ result.val.x.sh = arg.x.sh
          /\ result.val.y.sh = arg.y.sh
          /\ \A j \in Elems(arg) :
                /\ IsScaleOffset(result.val.x.v[j], arg.x.v[j], Row(j)[1], Row(j)[3])
                /\ IsScaleOffset(result.val.y.v[j], arg.y.v[j], Row(j)[2], Row(j)[4])
    /\ (Done("AffineTransform.undistort") /\ FiniteVec(arg))
       => /\ result.kind = "Vector2"
          /\ result.val.x.sh = arg.x.sh
          /\ result.val.y.sh = arg.y.sh
          /\ \A j \in Elems(arg) :
                /\ IsOffsetQuotient(result.val.x.v[j], arg.x.v[j], Row(j)[1], Row(j)[3])
                /\ IsOffsetQuotient(result.val.y.v[j], arg.y.v[j], Row(j)[2], Row(j)[4])
    /\ (params = Unbatched(DocParams) /\ arg = Point(DocPoint))
       => /\ Done("AffineTransform.distort") => result.val = Point(<<R(4), R(8)>>)
          /\ Done("AffineTransform.undistort") => result.val = Point(<<R(-2), R(-1)>>)

C6_Witness ==
    /\ Done("AffineTransform.undistort")
    /\ params = Unbatched(DocParams)
    /\ arg = Point(DocPoint)
    /\ result.val = Point(<<R(-2), R(-1)>>)

\* C7: the estimate starts at the target, and every iteration replaces the
\* estimate p by p + dp where J*dp = -f(p), f and J being those the
\* iteration computed at p
C7_NewtonUpdate ==
    [][ /\ (pc # "loop" /\ pc' = "loop") => xy' = arg'
        /\ (pc = "loop" /\ i' = i + 1 /\ FiniteVec(loc'.f_xy))
           => LET dpx == TSub(xy'.x, xy.x)
                  dpy == TSub(xy'.y, xy.y)
              IN  /\ loc'.x = xy.x
                  /\ loc'.y = xy.y
                  /\ TAdd(TMul(loc'.du_dx, dpx), TMul(loc'.du_dy, dpy))
                        = TNeg(loc'.f_xy.x)
                  /\ TAdd(TMul(loc'.dv_dx, dpx), TMul(loc'.dv_dy, dpy))
                        = TNeg(loc'.f_xy.y) ]_vars

\* the partial derivatives of project's outputs at (x, y), from
\*   xd = x*N/D + 2*p1*x*y + p2*(r2 + 2*x^2)
\*   yd = y*N/D + p1*(r2 + 2*y^2) + 2*p2*x*y
\* with N = 1 + k1*r2 + k2*r2^2 + k3*r2^3, D = 1 + k4*r2 + k5*r2^2 + k6*r2^3
Partials(row, x, y) ==
    LET r2 == RAdd(RMul(x, x), RMul(y, y))
        r4 == RMul(r2, r2)
        r6 == RMul(r4, r2)
        N == RAdd(RAdd(RAdd(R(1), RMul(row[1], r2)), RMul(row[2], r4)), RMul(row[5], r6))
        D == RAdd(RAdd(RAdd(R(1), RMul(row[6], r2)), RMul(row[7], r4)), RMul(row[8], r6))
        dN == RAdd(RAdd(row[1], RMul(R(2), RMul(row[2], r2))),
                   RMul(R(3), RMul(row[5], r4)))
        dD == RAdd(RAdd(row[6], RMul(R(2), RMul(row[7], r2))),
                   RMul(R(3), RMul(row[8], r4)))
        G == RDiv(RSub(RMul(dN, D), RMul(dD, N)), RMul(D, D))
        p1 == row[3]
        p2 == row[4]
    IN  [D |-> D,
         du_dx |-> RAdd(RAdd(RAdd(RDiv(N, D), RMul(RMul(R(2), RMul(x, x)), G)),
                             RMul(R(2), RMul(p1, y))), RMul(R(6), RMul(p2, x))),
         du_dy |-> RAdd(RAdd(RMul(RMul(R(2), RMul(x, y)), G),
                             RMul(R(2), RMul(p1, x))), RMul(R(2), RMul(p2, y))),
         dv_dx |-> RAdd(RAdd(RMul(RMul(R(2), RMul(x, y)), G),
                             RMul(R(2), RMul(p1, x))), RMul(R(2), RMul(p2, y))),
         dv_dy |-> RAdd(RAdd(RAdd(RDiv(N, D), RMul(RMul(R(2), RMul(y, y)), G)),
                             RMul(R(6), RMul(p1, y))), RMul(R(2), RMul(p2, x)))]

\* C8: where the rational denominator is non-zero, the four values du_dx,
\* du_dy, dv_dx, dv_dy computed in unproject are the partial derivatives of
\* project's outputs
C8_JacobianExact ==
    (op = "BrownConradyTransform.unproject" /\ i >= 1)
    => \A j \in Elems(xy) :
          LET ex == Partials(Row(j), xy.x.v[j], xy.y.v[j])
          IN  (IsFinite(xy.x.v[j]) /\ IsFinite(xy.y.v[j]) /\ ex.D # R(0))
              => /\ loc.du_dx.v[j] = ex.du_dx
                 /\ loc.du_dy.v[j] = ex.du_dy
                 /\ loc.dv_dx.v[j] = ex.dv_dx
                 /\ loc.dv_dy.v[j] = ex.dv_dy

\* C9: for coefficients of shape (B, 8), unproject reads no coefficient
\* along the batch axis, so no B raises an index error
C9_NoBatchAxisIndex ==
    (Done("BrownConradyTransform.unproject") /\ IsBatched)
    => ~(result.kind = "raise" /\ result.exc = "IndexError")

\* C10: unproject ends after exactly 50 iterations, whatever the input
C10_FiftyIterations ==
    Done("BrownConradyTransform.unproject") => i = NumIters /\ result.kind # "raise"

====
